---- MODULE Spec2Model ----
(***************************************************************************)
(* A model of graph_mail_sender.py: one run of the script, from the       *)
(* configuration block to the process exit.  The identity provider, the   *)
(* mail endpoint and the file system are the environment: their answers   *)
(* are chosen nondeterministically from small sets.                        *)
(*                                                                         *)
(* Python values whose type matters to the code (None / str / list /      *)
(* dict) are records tagged with their type, so that truthiness and       *)
(* isinstance are computed the way Python computes them.                  *)
(***************************************************************************)
EXTENDS Integers, Sequences, FiniteSets, TLC

VARIABLES
    CLIENT_ID, CLIENT_SECRET, TENANT_ID,   \* identity variables of the environment
    RECIPIENT_EMAIL,                       \* a str or a list of str
    ATTACHMENT_PATH,                       \* None or a str
    fs,                                    \* the regular files: path -> bytes
    pc,                                    \* the statement of __main__ to run next
    token, attachment, payload,            \* the locals of __main__
    exc,                                   \* the exception in flight
    log,                                   \* the records handed to the logger
    network,                               \* the network calls issued, in order
    reads,                                 \* the files opened and read, in order
    exit_status                            \* <<>> while running, <<code>> once exited

vars == <<CLIENT_ID, CLIENT_SECRET, TENANT_ID, RECIPIENT_EMAIL, ATTACHMENT_PATH, fs,
          pc, token, attachment, payload, exc, log, network, reads, exit_status>>

config == <<CLIENT_ID, CLIENT_SECRET, TENANT_ID, RECIPIENT_EMAIL, ATTACHMENT_PATH, fs>>

-----------------------------------------------------------------------------
(* Bounds of the model *)

MaxRecipients == 2      \* longest recipient list
MaxFileLen == 2         \* longest attachment file, in bytes

-----------------------------------------------------------------------------
(* Python values *)

PyNone == [type |-> "NoneType"]
PyStr(s) == [type |-> "str", str |-> s]
PyList(l) == [type |-> "list", list |-> l]
PyDict(d) == [type |-> "dict", dict |-> d]
Unbound == [type |-> "unbound"]

\* bool(v)
Truthy(v) ==
    CASE v.type = "NoneType" -> FALSE
      [] v.type = "str" -> v.str # ""
      [] v.type = "list" -> Len(v.list) > 0
      [] v.type = "dict" -> DOMAIN v.dict # {}

\* how an f-string or a %s renders a str or None
Format(v) == IF v.type = "NoneType" THEN "None" ELSE v.str

\* d.get(k)
DictGet(d, k) == IF k \in DOMAIN d THEN PyStr(d[k]) ELSE PyNone

Return(v) == [kind |-> "return", value |-> v]
Raise(e) == [kind |-> "raise", exc |-> e]

NoExc == [cls |-> "None"]

-----------------------------------------------------------------------------
(* The configuration block *)

SENDER_EMAIL == "reports@yourdomain.com"
EMAIL_SUBJECT == "Automated Report"
EMAIL_BODY == "Please find the attached report."
EMAIL_BODY_TYPE == "Text"
GRAPH_ENDPOINT == "https://graph.microsoft.com/v1.0"
SCOPE == <<"https://graph.microsoft.com/.default">>
AUTHORITY == "https://login.microsoftonline.com/" \o TENANT_ID
POST_TIMEOUT == 30

\* os.environ.get(name, ""): unset or empty, or set
EnvValues == {"", "id"}

Addresses == {"a@d.com", "b@d.com"}

SeqsUpTo(S, n) == UNION {[1..k -> S] : k \in 0..n}

RecipientValues ==
    {PyStr(a) : a \in Addresses \cup {""}}
        \cup {PyList(l) : l \in SeqsUpTo(Addresses, MaxRecipients)}

Paths == {"/reports/output.xlsx", "/reports/data.bin", "/reports/notes.txt"}

AttachmentPathValues == {PyNone, PyStr("")} \cup {PyStr(p) : p \in Paths}

ByteValues == {0, 77, 255}

FileSystems ==
    {[p \in D |-> c] : D \in {{}, {"/reports/output.xlsx"}, Paths},
                       c \in SeqsUpTo(ByteValues, MaxFileLen)}

-----------------------------------------------------------------------------
(* validate_config *)

\* the dict literal of validate_config, in insertion order
IdentityNames == <<"GRAPH_CLIENT_ID", "GRAPH_CLIENT_SECRET", "GRAPH_TENANT_ID">>

IdentityValue(name) ==
    CASE name = "GRAPH_CLIENT_ID" -> CLIENT_ID
      [] name = "GRAPH_CLIENT_SECRET" -> CLIENT_SECRET
      [] name = "GRAPH_TENANT_ID" -> TENANT_ID

IsMissing(name) == ~Truthy(PyStr(IdentityValue(name)))

\* a slip: the tenant id is left out of the checked names
MissingNamesNoTenant == SelectSeq(SubSeq(IdentityNames, 1, 2), IsMissing)

\* [name for name, val in {...}.items() if not val]
MissingNames == SelectSeq(IdentityNames, IsMissing)

\* a slip: only the first missing name is reported
validate_config_first_only ==
    IF Truthy(PyList(MissingNames))
    THEN Raise([cls |-> "OSError", missing |-> <<Head(MissingNames)>>])
    ELSE Return(PyNone)

\* The message of the EnvironmentError is fixed text around ', '.join(missing);
\* the exception carries the joined names as the sequence they were joined from.
validate_config ==
    IF Truthy(PyList(MissingNames))
    THEN Raise([cls |-> "OSError", missing |-> MissingNames])
    ELSE Return(PyNone)

-----------------------------------------------------------------------------
(* acquire_token *)

\* what app.acquire_token_for_client can answer
TokenResults ==
    {[access_token |-> "T", token_type |-> "Bearer"],
     [access_token |-> "U", error |-> "interaction_required", error_description |-> "stale"],
     [error |-> "invalid_client", error_description |-> "AADSTS7000215: Invalid client secret provided."],
     [error |-> "unauthorized_client"],
     [token_type |-> "Bearer"]}

AuthFailed(result) ==
    Raise([cls |-> "RuntimeError",
           error |-> Format(DictGet(result, "error")),
           error_description |-> Format(DictGet(result, "error_description"))])

\* a slip: the error field decides, not the access_token field
acquire_token_on_error_field(result) ==
    IF "error" \notin DOMAIN result
    THEN Return(DictGet(result, "access_token"))
    ELSE AuthFailed(result)

\* the part of acquire_token after the provider's answer `result` has arrived
acquire_token(result) ==
    IF "access_token" \in DOMAIN result
    THEN Return(PyStr(result["access_token"]))
    ELSE AuthFailed(result)

-----------------------------------------------------------------------------
(* build_attachment *)

\* os.path.isfile
isfile(file_path) == file_path \in DOMAIN fs

\* os.path.basename, on the paths of the model
basename(file_path) ==
    CASE file_path = "/reports/output.xlsx" -> "output.xlsx"
      [] file_path = "/reports/data.bin" -> "data.bin"
      [] file_path = "/reports/notes.txt" -> "notes.txt"

\* mimetypes.guess_type(...)[0], on the paths of the model: by extension, None when unknown
guess_type(file_path) ==
    CASE file_path = "/reports/output.xlsx" ->
            PyStr("application/vnd.openxmlformats-officedocument.spreadsheetml.sheet")
      [] file_path = "/reports/notes.txt" -> PyStr("text/plain")
      [] OTHER -> PyNone

B64Alphabet ==
    <<"A","B","C","D","E","F","G","H","I","J","K","L","M","N","O","P",
      "Q","R","S","T","U","V","W","X","Y","Z","a","b","c","d","e","f",
      "g","h","i","j","k","l","m","n","o","p","q","r","s","t","u","v",
      "w","x","y","z","0","1","2","3","4","5","6","7","8","9","+","/">>

B64Char(sextet) == B64Alphabet[sextet + 1]

\* base64.b64encode(bytes).decode("utf-8")
RECURSIVE b64encode(_)
b64encode(bs) ==
    IF Len(bs) = 0 THEN ""
    ELSE IF Len(bs) = 1 THEN
        B64Char(bs[1] \div 4) \o B64Char((bs[1] % 4) * 16) \o "=="
    ELSE IF Len(bs) = 2 THEN
        B64Char(bs[1] \div 4) \o B64Char((bs[1] % 4) * 16 + bs[2] \div 16)
            \o B64Char((bs[2] % 16) * 4) \o "="
    ELSE
        B64Char(bs[1] \div 4) \o B64Char((bs[1] % 4) * 16 + bs[2] \div 16)
            \o B64Char((bs[2] % 16) * 4 + bs[3] \div 64) \o B64Char(bs[3] % 64)
            \o b64encode(SubSeq(bs, 4, Len(bs)))

build_attachment(file_path) ==
    IF ~isfile(file_path)
    THEN Raise([cls |-> "FileNotFoundError", file_path |-> file_path])
    ELSE LET guessed == guess_type(file_path)
             mime_type == IF Truthy(guessed) THEN guessed.str ELSE "application/octet-stream"
         IN Return(PyDict(("@odata.type" :> "#microsoft.graph.fileAttachment")
                           @@ [name |-> basename(file_path),
                               contentType |-> mime_type,
                               contentBytes |-> b64encode(fs[file_path])]))

-----------------------------------------------------------------------------
(* build_payload *)

Recipients ==
    IF RECIPIENT_EMAIL.type = "str" THEN <<RECIPIENT_EMAIL.str>> ELSE RECIPIENT_EMAIL.list

ToRecipients(recipients) ==
    [i \in 1..Len(recipients) |-> [emailAddress |-> [address |-> recipients[i]]]]

Message(recipients) ==
    [subject |-> EMAIL_SUBJECT,
     body |-> [contentType |-> EMAIL_BODY_TYPE, content |-> EMAIL_BODY],
     toRecipients |-> ToRecipients(recipients)]

RECURSIVE Dedup(_)
Dedup(s) ==
    IF s = <<>> THEN <<>>
    ELSE LET rest == Dedup(SubSeq(s, 1, Len(s) - 1))
         IN IF \E i \in 1..Len(rest) : rest[i] = s[Len(s)] THEN rest
            ELSE Append(rest, s[Len(s)])

\* a slip: the addresses are deduplicated on the way into the message
build_payload_dedup(attachment_) ==
    [message |-> IF Truthy(attachment_)
                 THEN Message(Dedup(Recipients)) @@ [attachments |-> <<attachment_.dict>>]
                 ELSE Message(Dedup(Recipients)),
     saveToSentItems |-> TRUE]

\* a slip: the attachments field is always sent, empty when there is no attachment
build_payload_empty_list(attachment_) ==
    [message |-> Message(Recipients) @@
                 [attachments |-> IF Truthy(attachment_) THEN <<attachment_.dict>> ELSE <<>>],
     saveToSentItems |-> TRUE]

build_payload(attachment_) ==
    [message |-> IF Truthy(attachment_)
                 THEN Message(Recipients) @@ [attachments |-> <<attachment_.dict>>]
                 ELSE Message(Recipients),
     saveToSentItems |-> TRUE]

-----------------------------------------------------------------------------
(* send_mail *)

JsonErrorBody == "{\"error\":{\"message\":\"bad request\"}}"

ResponseTexts == {"", JsonErrorBody, "Service Unavailable"}

StatusCodes == {200, 202, 204, 400, 503}

Responses == [status_code : StatusCodes, text : ResponseTexts]

\* response.json(), on the bodies of the model: the parsed document, or a raise
response_json(response) ==
    IF response.text = JsonErrorBody
    THEN Return(PyDict([error |-> [message |-> "bad request"]]))
    ELSE Raise([cls |-> "JSONDecodeError"])

SUCCESS_STATUS == 202

\* a slip: every 2xx status counts as success
send_mail_accepts_2xx(response) == response.status_code \div 100 = 2

send_mail_accepts(response) == response.status_code = SUCCESS_STATUS

\* the part of send_mail after the endpoint's answer `response` has arrived
send_mail(response) ==
    IF send_mail_accepts(response)
    THEN Return(PyNone)
    ELSE LET parsed == response_json(response)
             detail == IF parsed.kind = "return" THEN parsed.value ELSE PyStr(response.text)
         IN Raise([cls |-> "HTTPError",
                   status_code |-> response.status_code,
                   detail |-> detail])

-----------------------------------------------------------------------------
(* __main__ *)

\* EnvironmentError is an alias of OSError
EnvironmentError == "OSError"

\* the classes an except clause naming one of them catches: the class and its bases
\* (FileNotFoundError is a subclass of OSError; requests.HTTPError is a
\* RequestException, which is an IOError, itself an alias of OSError)
Mro(cls) ==
    CASE cls = "OSError" -> {"OSError", "Exception"}
      [] cls = "FileNotFoundError" -> {"FileNotFoundError", "OSError", "Exception"}
      [] cls = "RuntimeError" -> {"RuntimeError", "Exception"}
      [] cls = "HTTPError" -> {"HTTPError", "RequestException", "OSError", "Exception"}

\* a slip: the first clause logs and falls off the end of the script
HandlersNoExit ==
    <<[catches |-> EnvironmentError, msg |-> "Configuration error: %s", code |-> 0],
      [catches |-> "FileNotFoundError", msg |-> "Attachment error: %s", code |-> 1],
      [catches |-> "RuntimeError", msg |-> "Authentication error: %s", code |-> 1],
      [catches |-> "HTTPError", msg |-> "Send failed: %s", code |-> 1]>>

\* the except clauses of __main__, in the order they are tried
Handlers ==
    <<[catches |-> EnvironmentError, msg |-> "Configuration error: %s", code |-> 1],
      [catches |-> "FileNotFoundError", msg |-> "Attachment error: %s", code |-> 1],
      [catches |-> "RuntimeError", msg |-> "Authentication error: %s", code |-> 1],
      [catches |-> "HTTPError", msg |-> "Send failed: %s", code |-> 1]>>

\* the clause that handles e: the first one whose class e is an instance of
Catching(e) == {i \in 1..Len(Handlers) : Handlers[i].catches \in Mro(e.cls)}
Handler(e) == Handlers[CHOOSE i \in Catching(e) : \A j \in Catching(e) : i <= j]

\* a slip: the attachment is built before the token is requested
main_next_attachment_first(stmt) ==
    CASE stmt = "validate_config" -> "build_attachment"
      [] stmt = "build_attachment" -> "acquire_token"
      [] stmt = "acquire_token" -> "build_payload"
      [] stmt = "build_payload" -> "send_mail"
      [] stmt = "send_mail" -> "end"

\* the statement of the try block that follows stmt when stmt does not raise
main_next(stmt) ==
    CASE stmt = "validate_config" -> "acquire_token"
      [] stmt = "acquire_token" -> "build_attachment"
      [] stmt = "build_attachment" -> "build_payload"
      [] stmt = "build_payload" -> "send_mail"
      [] stmt = "send_mail" -> "end"

Info(msg) == [level |-> "INFO", msg |-> msg]
Error(msg, e) == [level |-> "ERROR", msg |-> msg, exc |-> e]

Init ==
    /\ CLIENT_ID \in EnvValues
    /\ CLIENT_SECRET \in EnvValues
    /\ TENANT_ID \in EnvValues
    /\ RECIPIENT_EMAIL \in RecipientValues
    /\ ATTACHMENT_PATH \in AttachmentPathValues
    /\ fs \in FileSystems
    /\ pc = "validate_config"
    /\ token = Unbound
    /\ attachment = Unbound
    /\ payload = Unbound
    /\ exc = NoExc
    /\ log = <<>>
    /\ network = <<>>
    /\ reads = <<>>
    /\ exit_status = <<>>

\* validate_config()
main_validate_config ==
    /\ pc = "validate_config"
    /\ LET r == validate_config
       IN IF r.kind = "raise"
          THEN exc' = r.exc /\ pc' = "except"
          ELSE exc' = exc /\ pc' = main_next(pc)
    /\ UNCHANGED <<config, token, attachment, payload, log, network, reads, exit_status>>

\* token = acquire_token()
main_acquire_token ==
    /\ pc = "acquire_token"
    /\ \E result \in TokenResults :
          LET r == acquire_token(result)
          IN /\ network' = Append(network,
                    [call |-> "acquire_token_for_client", client_id |-> CLIENT_ID,
                     authority |-> AUTHORITY, client_credential |-> CLIENT_SECRET,
                     scopes |-> SCOPE, result |-> result])
             /\ IF r.kind = "raise"
                THEN exc' = r.exc /\ pc' = "except" /\ UNCHANGED <<token, log>>
                ELSE /\ token' = r.value
                     /\ log' = Append(log, Info("Access token acquired."))
                     /\ pc' = main_next(pc)
                     /\ exc' = exc
    /\ UNCHANGED <<config, attachment, payload, reads, exit_status>>

\* attachment = build_attachment(ATTACHMENT_PATH) if ATTACHMENT_PATH else None
main_build_attachment ==
    /\ pc = "build_attachment"
    /\ IF Truthy(ATTACHMENT_PATH)
       THEN LET r == build_attachment(ATTACHMENT_PATH.str)
            IN IF r.kind = "raise"
               THEN exc' = r.exc /\ pc' = "except" /\ UNCHANGED <<attachment, log, reads>>
               ELSE /\ attachment' = r.value
                    /\ reads' = Append(reads, ATTACHMENT_PATH.str)
                    /\ log' = Append(log, Info("Attachment ready: %s (%s)"))  \* name, type
                    /\ pc' = main_next(pc)
                    /\ exc' = exc
       ELSE /\ attachment' = PyNone
            /\ pc' = main_next(pc)
            /\ UNCHANGED <<exc, log, reads>>
    /\ UNCHANGED <<config, token, payload, network, exit_status>>

\* payload = build_payload(attachment)
main_build_payload ==
    /\ pc = "build_payload"
    /\ payload' = PyDict(build_payload(attachment))
    /\ pc' = main_next(pc)
    /\ UNCHANGED <<config, token, attachment, exc, log, network, reads, exit_status>>

\* send_mail(token, payload)
main_send_mail ==
    /\ pc = "send_mail"
    /\ \E response \in Responses :
          LET r == send_mail(response)
          IN /\ network' = Append(network,
                    [call |-> "requests.post",
                     url |-> GRAPH_ENDPOINT \o "/users/" \o SENDER_EMAIL \o "/sendMail",
                     headers |-> [Authorization |-> "Bearer " \o Format(token),
                                  ContentType |-> "application/json"],
                     json |-> payload.dict,
                     timeout |-> POST_TIMEOUT,
                     response |-> response])
             /\ IF r.kind = "raise"
                THEN exc' = r.exc /\ pc' = "except" /\ log' = log
                ELSE /\ log' = Append(log, Info("Email sent successfully."))
                     /\ pc' = main_next(pc)
                     /\ exc' = exc
    /\ UNCHANGED <<config, token, attachment, payload, reads, exit_status>>

\* except ... as exc: log.error(...); raise SystemExit(...)
main_except ==
    /\ pc = "except"
    /\ Catching(exc) # {}
    /\ log' = Append(log, Error(Handler(exc).msg, exc))
    /\ exit_status' = <<Handler(exc).code>>
    /\ pc' = "exit"
    /\ UNCHANGED <<config, token, attachment, payload, exc, network, reads>>

\* the try block ran to its end: the interpreter exits normally
main_end ==
    /\ pc = "end"
    /\ exit_status' = <<0>>
    /\ pc' = "exit"
    /\ UNCHANGED <<config, token, attachment, payload, exc, log, network, reads>>

Next ==
    \/ main_validate_config
    \/ main_acquire_token
    \/ main_build_attachment
    \/ main_build_payload
    \/ main_send_mail
    \/ main_except
    \/ main_end

Spec == Init /\ [][Next]_vars

-----------------------------------------------------------------------------
(* Properties *)

FailureClasses == {"OSError", "FileNotFoundError", "RuntimeError", "HTTPError"}

TokenCalls == {i \in 1..Len(network) : network[i].call = "acquire_token_for_client"}
PostCalls == {i \in 1..Len(network) : network[i].call = "requests.post"}

LastLog == log[Len(log)]

EmptyIdentityNames ==
    {nv[1] : nv \in {x \in {<<"GRAPH_CLIENT_ID", CLIENT_ID>>,
                            <<"GRAPH_CLIENT_SECRET", CLIENT_SECRET>>,
                            <<"GRAPH_TENANT_ID", TENANT_ID>>} : x[2] = ""}}

\* C1: a run that has failed and exited logged its failure under the label of
\* its kind: the configuration error under 'Configuration error', the
\* attachment-not-found error under 'Attachment error', the authentication
\* error under 'Authentication error', the send failure under 'Send failed'.
C1_OwnLabelPerFailureKind ==
    (pc = "exit" /\ exc.cls \in FailureClasses) =>
        /\ LastLog.level = "ERROR"
        /\ exc.cls = "OSError" => LastLog.msg = "Configuration error: %s"
        /\ exc.cls = "FileNotFoundError" => LastLog.msg = "Attachment error: %s"
        /\ exc.cls = "RuntimeError" => LastLog.msg = "Authentication error: %s"
        /\ exc.cls = "HTTPError" => LastLog.msg = "Send failed: %s"

\* C2: the process exits with code 0 exactly when the mail endpoint answered
\* 202; a run that ended in one of the four failures exits with code 1; a run
\* ends in no other way, and has no exit code before it ends.
C2_ExitCode ==
    /\ pc # "exit" => exit_status = <<>>
    /\ pc = "exit" =>
        /\ exit_status \in {<<0>>, <<1>>}
        /\ exit_status = <<0>> <=>
              \E i \in PostCalls : network[i].response.status_code = 202
        /\ exit_status = <<0>> <=> exc = NoExc
        /\ exit_status = <<1>> <=> exc.cls \in FailureClasses

C2_Witness ==
    /\ pc = "exit"
    /\ exit_status = <<0>>
    /\ PostCalls # {}

\* C3: validate_config raises if and only if at least one identity field is
\* empty, and then the names its message lists are exactly the empty fields,
\* each once; with all three set it returns.
C3_ValidateConfig ==
    pc # "validate_config" =>
        /\ (exc.cls = "OSError") <=> EmptyIdentityNames # {}
        /\ exc.cls = "OSError" =>
              /\ {exc.missing[i] : i \in 1..Len(exc.missing)} = EmptyIdentityNames
              /\ Len(exc.missing) = Cardinality(EmptyIdentityNames)
              /\ pc \in {"except", "exit"}

C3_Witness ==
    /\ pc = "except"
    /\ exc.cls = "OSError"
    /\ CLIENT_ID = "" /\ CLIENT_SECRET # "" /\ TENANT_ID = ""

\* C4: in a run with an empty identity field no token request and no mail
\* POST is issued and no file is read, and the run ends with the
\* configuration error.
C4_ValidationBeforeNetwork ==
    EmptyIdentityNames # {} =>
        /\ network = <<>>
        /\ reads = <<>>
        /\ pc \in {"validate_config", "except", "exit"}
        /\ pc \in {"except", "exit"} => exc.cls = "OSError"
        /\ pc = "exit" =>
              /\ exit_status = <<1>>
              /\ LastLog.level = "ERROR"
              /\ LastLog.msg = "Configuration error: %s"

C4_Witness ==
    /\ pc = "exit"
    /\ CLIENT_ID # "" /\ CLIENT_SECRET # "" /\ TENANT_ID = ""
    /\ Truthy(ATTACHMENT_PATH)

C6_AcquireToken ==
    \A i \in TokenCalls :
        LET result == network[i].result
        IN IF "access_token" \in DOMAIN result
           THEN /\ token = PyStr(result.access_token)
                /\ exc.cls # "RuntimeError"
           ELSE /\ token = Unbound
                /\ exc.cls = "RuntimeError"
                /\ exc.error = IF "error" \in DOMAIN result THEN result.error ELSE "None"
                /\ exc.error_description =
                      IF "error_description" \in DOMAIN result
                      THEN result.error_description ELSE "None"

C6_Witness ==
    /\ pc = "except"
    /\ exc.cls = "RuntimeError"
    /\ exc.error = "invalid_client"
    /\ exc.error_description = "AADSTS7000215: Invalid client secret provided."

\* C7: the payload's toRecipients is the one-element list of the address
\* when the recipient value is a string, and otherwise has one entry per
\* element of the recipient sequence, in its order, duplicates kept.
C7_Recipients ==
    payload.type = "dict" =>
        LET to == payload.dict.message.toRecipients
        IN IF RECIPIENT_EMAIL.type = "str"
           THEN to = <<[emailAddress |-> [address |-> RECIPIENT_EMAIL.str]]>>
           ELSE /\ Len(to) = Len(RECIPIENT_EMAIL.list)
                /\ \A i \in 1..Len(to) :
                      to[i] = [emailAddress |-> [address |-> RECIPIENT_EMAIL.list[i]]]

C7_Witness ==
    /\ payload.type = "dict"
    /\ RECIPIENT_EMAIL = PyList(<<"b@d.com", "b@d.com">>)
    /\ Len(payload.dict.message.toRecipients) = 2

\* C8: the payload's message has an attachments field exactly when a
\* descriptor was supplied, and then the field is the list of that one
\* descriptor; saveToSentItems is true either way.
C8_AttachmentsField ==
    payload.type = "dict" =>
        LET message == payload.dict.message
        IN /\ ("attachments" \in DOMAIN message) <=> attachment.type = "dict"
           /\ attachment.type = "dict" => message.attachments = <<attachment.dict>>
           /\ payload.dict.saveToSentItems = TRUE

C8_Witness ==
    /\ payload.type = "dict"
    /\ attachment = PyNone
    /\ "attachments" \notin DOMAIN payload.dict.message

\* C9: no mail POST is issued with a payload whose toRecipients list is empty.
C9_RecipientsNonEmpty ==
    \A i \in PostCalls : Len(network[i].json.message.toRecipients) > 0

\* C10: at most one token request and at most one mail POST are made; the
\* POST comes after the token request, carries the token that request
\* returned and, when an attachment path is configured, comes after the file
\* was found and read; a run whose attachment file is missing has made the
\* token request and makes no POST.
C10_CallOrder ==
    /\ Cardinality(TokenCalls) <= 1
    /\ Cardinality(PostCalls) <= 1
    /\ \A i \in PostCalls :
          /\ i = 2
          /\ 1 \in TokenCalls
          /\ "access_token" \in DOMAIN network[1].result
          /\ network[i].headers.Authorization = "Bearer " \o network[1].result.access_token
          /\ Truthy(ATTACHMENT_PATH) =>
                /\ reads = <<ATTACHMENT_PATH.str>>
                /\ "attachments" \in DOMAIN network[i].json.message
    /\ exc.cls = "FileNotFoundError" =>
          /\ TokenCalls = {1}
          /\ PostCalls = {}

C10_Witness ==
    /\ pc = "exit"
    /\ exc.cls = "FileNotFoundError"
    /\ Len(network) = 1

====
